---- MODULE Spec2Model ----
(***************************************************************************)
(* Real-time acquisition and touch detection of the capacitive sensor      *)
(* toolkit.                                                                *)
(*                                                                         *)
(*   CellSpec  the per-node tracker, realtime_8by8/test/cell_pipeline.py   *)
(*   PipeSpec  the threaded reader / CSV writer / main pipeline,           *)
(*             node_processing/real_serial_read_diff.py                    *)
(*                                                                         *)
(* Numbers.  Raw readings are non-negative integers (FDC2214 counts).      *)
(* The tracker's float fields baseline and delta are kept in fixed point:  *)
(* an integer n stands for the float n / FP.  Products with the rational   *)
(* rates alpha_baseline and delta_decay are truncated to that resolution.  *)
(***************************************************************************)
EXTENDS Integers, Sequences, FiniteSets, TLC

\* ------------------------------------------------------------------------
\* Bounds of the model
\* ------------------------------------------------------------------------
\* fixed-point resolution of the float fields: 1 unit = 1/FP
FP == 4

\* ------------------------------------------------------------------------
\* CellPipeline (cell_pipeline.py)
\* ------------------------------------------------------------------------
VARIABLES
    cfg,          \* constructor arguments of the tracker
    baseline,     \* self.baseline (fixed point), None before the first feed
    delta,        \* self.delta (fixed point)
    is_touched,   \* self.is_touched
    press_buf,    \* self.press_buf, deque(maxlen = window)
    call,         \* the most recent call: its name, its argument,
                  \* is_touched and delta as the call found them, and whether every
                  \* call since construction was a feed of one same value
    ret           \* what that call returned: <<delta, is_touched>>

cellVars == <<cfg, baseline, delta, is_touched, press_buf, call, ret>>

\* state of the threaded pipeline (real_serial_read_diff.py)
VARIABLES
    frame_buffer,       \* frame being built: (row, col) -> raw value
    completed_frames,   \* deque(maxlen=10) of [ts, frame]
    csv_queue,          \* queue.Queue() of [timestamp, row, col, raw]
    csv_rows,           \* rows the writer has written to the raw CSV
    running,
    writer_running,
    samples_received,
    frames_completed,
    invalid_samples,
    current_timestamp,
    ser,                \* the serial handle: "None", "open" or "closed"
    ser_close_calls,    \* calls of ser.close() so far
    reader_pc,          \* position of reader_thread_func
    reader_local,       \* its locals: r_idx, c_idx, raw_value, lines_received;
                        \* and whether the last line was malformed
    writer_pc,          \* position of csv_writer_thread_func
    main_pc,            \* position of main()
    sigints,            \* SIGINTs delivered so far
    fed,                \* history: the valid samples parsed so far
    at_stop,            \* history, taken when the stop signal is first
                        \* given: whether samples were queued, and the rows
                        \* written followed by the rows still queued
    last_pub,           \* history: the frame published last, if any
    line_budget         \* lines the serial port delivers in this run

pipeVars == <<frame_buffer, completed_frames, csv_queue, csv_rows, running,
              writer_running, samples_received, frames_completed,
              invalid_samples, current_timestamp, ser, ser_close_calls,
              reader_pc, reader_local, writer_pc, main_pc, sigints, fed,
              at_stop, last_pub, line_budget>>

\* state of the animation callback update_visualization and of the
\* calibration it drives (real_serial_read_diff.py); main thread only
VARIABLES
    baseline_c0,                \* (row, col) -> C0 in pF (fixed point)
    baseline_ready,
    baseline_frames_collected,
    baseline_values_history,    \* the grids appended by establish_baseline
    frame_data,                 \* the frame the last callback took: where
                                \* it came from and its (row, col) -> raw
    delta_grid                  \* the grid the last callback rendered

visVars == <<baseline_c0, baseline_ready, baseline_frames_collected,
             baseline_values_history, frame_data, delta_grid>>

\* GridManager (grid_manager.py and its copy grid_manager4x4.py)
VARIABLES
    grid_impl,    \* which of the two files the object is built from
    cells,        \* self._cells: (row, col) -> the tracker and its fields
    grid_call     \* the most recent call: name, key, argument, what it
                  \* returned, whether it raised, and the calls so far

gridVars == <<grid_impl, cells, grid_call>>

\* position in the recorded sample sequence fed to one tracker
VARIABLE scen_i

\* the two-thread logger (serial_read.py, serial_read_diff.py)
VARIABLES
    write_queue,      \* queue.Queue() of samples
    memory_buffer,    \* the samples kept in RAM
    raw_out,          \* the rows written to RAW_OUT
    sr                \* running, writer_running, the position of each
                      \* thread, the sample in the reader's hands, and the
                      \* lines and SIGINTs so far

srVars == <<write_queue, memory_buffer, raw_out, sr>>

\* what the pipeline threads leave alone
offPipeVars == <<cellVars, visVars, gridVars, scen_i, srVars>>

vars == <<cellVars, pipeVars, visVars, gridVars, scen_i, srVars>>

\* self.baseline = None; readings are non-negative, so is every baseline
None == -1

\* raw readings fed to the tracker
CellVals == {0, 4, 10, 20}

\* Constructor arguments.  Rates are <<numerator, denominator>>.  The
\* first family has release_band < press_dip as the documentation asks;
\* the next configuration has the two the other way round, the next has
\* both thresholds at zero, the last two have delta_decay 1 and 0.
Configs ==
    { [alpha_baseline |-> <<1, 2>>, press_dip |-> 8, release_band |-> 3,
       window |-> w, delta_decay |-> <<1, 2>>] : w \in 1..3 }
    \cup
    { [alpha_baseline |-> <<1, 2>>, press_dip |-> 8, release_band |-> 12,
       window |-> 2, delta_decay |-> <<1, 2>>] }
    \cup
    { [alpha_baseline |-> <<1, 2>>, press_dip |-> 0, release_band |-> 0,
       window |-> 2, delta_decay |-> <<1, 2>>] }
    \cup
    { [alpha_baseline |-> <<1, 2>>, press_dip |-> 8, release_band |-> 3,
       window |-> 2, delta_decay |-> d] : d \in { <<1, 1>>, <<0, 1>> } }

Abs(x) == IF x < 0 THEN -x ELSE x

\* float(val)
ToFloat(val) == val * FP

\* deque(maxlen).append: the oldest element falls out of a full deque
DequeAppend(buf, val, maxlen) ==
    IF maxlen = 0 THEN <<>>
    ELSE IF Len(buf) >= maxlen THEN Append(Tail(buf), val)
    ELSE Append(buf, val)

\* prev_val: the element before the one just appended, if the deque has one
PrevValCurrent(buf, val) == val

PrevVal(buf, val) == IF Len(buf) > 1 THEN buf[Len(buf) - 1] ELSE val

\* touch detection on dip start
TouchOnsetInclusive(touched, prev_val, val, c) ==
    IF (~touched) /\ (prev_val - val) >= c.press_dip THEN TRUE ELSE touched

TouchOnset(touched, prev_val, val, c) ==
    IF (~touched) /\ (prev_val - val) > c.press_dip THEN TRUE ELSE touched

\* release detection, absolute hysteresis
TouchReleaseInclusive(touched, b, val, c) ==
    IF touched /\ Abs(b - ToFloat(val)) <= c.release_band * FP
    THEN FALSE ELSE touched

TouchRelease(touched, b, val, c) ==
    IF touched /\ Abs(b - ToFloat(val)) < c.release_band * FP
    THEN FALSE ELSE touched

\* exponential moving average, then the sanity reset
\*   baseline < val / 20.0  <=>  20 * baseline < val
\*   baseline > val * 20.0
Ema(b, val, c) ==
    ((c.alpha_baseline[2] - c.alpha_baseline[1]) * b
        + c.alpha_baseline[1] * ToFloat(val)) \div c.alpha_baseline[2]

SanityReset(b, val) ==
    IF 20 * b < ToFloat(val) \/ b > ToFloat(val) * 20 THEN ToFloat(val) ELSE b

\* baseline update, only when untouched
BaselineUpdateAlways(touched, b, val, c) == SanityReset(Ema(b, val, c), val)

BaselineUpdate(touched, b, val, c) ==
    IF ~touched THEN SanityReset(Ema(b, val, c), val) ELSE b

\* delta update and the clamp of negative noise
DeltaUpdateUnclamped(touched, d, b, val, c) ==
    LET decayed == ((c.delta_decay[2] - c.delta_decay[1]) * d)
                       \div c.delta_decay[2]
    IN IF ~touched
       THEN (IF Abs(decayed) < FP THEN 0 ELSE decayed)
       ELSE b - ToFloat(val)

DeltaUpdateNoSnap(touched, d, b, val, c) ==
    LET decayed == ((c.delta_decay[2] - c.delta_decay[1]) * d)
                       \div c.delta_decay[2]
        d1 == IF ~touched THEN decayed ELSE b - ToFloat(val)
    IN IF d1 < 0 THEN 0 ELSE d1

DeltaUpdate(touched, d, b, val, c) ==
    LET decayed == ((c.delta_decay[2] - c.delta_decay[1]) * d)
                       \div c.delta_decay[2]
        d1 == IF ~touched
              THEN (IF Abs(decayed) < FP THEN 0 ELSE decayed)
              ELSE b - ToFloat(val)
    IN IF d1 < 0 THEN 0 ELSE d1

\* CellPipeline.feed(val): the new fields and the returned pair
FeedResult(st, val, c) ==
    LET buf == DequeAppend(st.press_buf, val, c.window)
    IN IF st.baseline = None
       THEN [baseline |-> ToFloat(val), delta |-> st.delta,
             is_touched |-> st.is_touched, press_buf |-> buf,
             ret |-> <<0, FALSE>>]
       ELSE LET prev_val == PrevVal(buf, val)
                t1 == TouchOnset(st.is_touched, prev_val, val, c)
                t2 == TouchRelease(t1, st.baseline, val, c)
                b2 == BaselineUpdate(t2, st.baseline, val, c)
                d2 == DeltaUpdate(t2, st.delta, b2, val, c)
            IN [baseline |-> b2, delta |-> d2, is_touched |-> t2,
                press_buf |-> buf, ret |-> <<d2, t2>>]

CellState ==
    [baseline |-> baseline, delta |-> delta, is_touched |-> is_touched,
     press_buf |-> press_buf]

\* state after CellPipeline.__init__
CellInitWith(c) ==
    /\ cfg = c
    /\ baseline = None
    /\ delta = 0
    /\ is_touched = FALSE
    /\ press_buf = <<>>
    /\ call = [op |-> "init", val |-> 0, touched_before |-> FALSE,
               delta_before |-> 0,
               steady |-> TRUE]
    /\ ret = <<0, FALSE>>

CellInit == \E c \in Configs : CellInitWith(c)

\* the tracker as the pipeline specification holds it: constructed, unused
CellIdle ==
    CellInitWith([alpha_baseline |-> <<1, 2>>, press_dip |-> 8,
                  release_band |-> 3, window |-> 2, delta_decay |-> <<1, 2>>])

Feed(val) ==
    LET r == FeedResult(CellState, val, cfg)
    IN /\ baseline' = r.baseline
       /\ delta' = r.delta
       /\ is_touched' = r.is_touched
       /\ press_buf' = r.press_buf
       /\ ret' = r.ret
       /\ call' = [op |-> "feed", val |-> val, touched_before |-> is_touched,
                   delta_before |-> delta,
                   steady |-> call.steady /\ (call.op = "init" \/ call.val = val)]
       /\ UNCHANGED cfg
       /\ UNCHANGED <<pipeVars, visVars, gridVars, srVars>>

CellFeed == \E val \in CellVals : Feed(val) /\ UNCHANGED scen_i

\* CellPipeline.reset()
CellReset ==
    /\ baseline' = None
    /\ delta' = 0
    /\ is_touched' = FALSE
    /\ press_buf' = <<>>
    /\ call' = [op |-> "reset", val |-> 0, touched_before |-> is_touched,
                delta_before |-> delta,
                steady |-> FALSE]
    /\ UNCHANGED <<cfg, ret>>
    /\ UNCHANGED <<pipeVars, visVars, gridVars, scen_i, srVars>>

\* ------------------------------------------------------------------------
\* Threaded pipeline (real_serial_read_diff.py)
\*
\* Three threads: reader_thread_func (daemon), csv_writer_thread_func and
\* main(), in which the SIGINT handler handle_exit also runs.  A thread
\* step is a stretch of code between two points where another thread can
\* see or change shared state: the blocks under the lock, the queue
\* operations, the flag assignments.
\*   - time.time() - start_time is a logical clock: the number of lines
\*     received so far;
\*   - the pF file gets one row for each row of the raw file and is left
\*     out; opening the CSV files is taken to succeed;
\*   - a read that times out changes nothing and is a stuttering step.
\* ------------------------------------------------------------------------
\* lines read from the serial port in one run
MaxLines == 3
\* SIGINTs delivered in one run
MaxSigints == 1

\* grid of the model (the script is configured for 8 x 8)
NUM_ROWS == 1
NUM_COLS == 2
TOTAL_NODES == NUM_ROWS * NUM_COLS

\* completed_frames = deque(maxlen=10)
CompletedMaxlen == 10
\* csv_queue = queue.Queue(): maxsize 0, which queue.Queue reads as infinite
CsvQueueMaxsize == 0

GridKeys == (0 .. NUM_ROWS - 1) \X (0 .. NUM_COLS - 1)

\* A line of the serial stream, already split at the commas.
\* int() of a field: the decimal strings parse, anything else is a ValueError
IntOfField == [f \in {"-1", "0", "1", "2", "7", "9"} |->
                 CASE f = "-1" -> -1 [] f = "0" -> 0 [] f = "1" -> 1
                   [] f = "2" -> 2 [] f = "7" -> 7 [] f = "9" -> 9]

IsInt(f) == f \in DOMAIN IntOfField

Lines ==
    { <<"0", "0", "7">>, <<"0", "0", "9">>, <<"0", "1", "7">> }
    \cup { <<"1", "0", "7">>, <<"0", "-1", "7">> }     \* outside the grid
    \cup { <<"0", "1">>, <<"x", "0", "7">> }           \* malformed
    \cup { <<"READY">> }                               \* firmware banner

HeaderWords == {"FDC", "READY", "FAIL", "ROW_INDEX", "COLUMN_INDEX", "NODE_VALUE"}

IsHeader(line) == \E i \in 1 .. Len(line) : line[i] \in HeaderWords

\* index validation of the reader
InGridAny(r, c) == TRUE

InGrid(r, c) == ~(r < 0 \/ r >= NUM_ROWS \/ c < 0 \/ c >= NUM_COLS)

\* outcome of parsing one line: "skip" (header), "invalid", or a sample
ParseLineDefaulting(line) ==
    IF IsHeader(line) THEN [kind |-> "skip"]
    ELSE IF Len(line) # 3 THEN [kind |-> "sample", r |-> 0, c |-> 0, v |-> 0]
    ELSE IF ~(IsInt(line[1]) /\ IsInt(line[2]) /\ IsInt(line[3]))
         THEN [kind |-> "sample", r |-> 0, c |-> 0, v |-> 0]
    ELSE IF ~InGrid(IntOfField[line[1]], IntOfField[line[2]])
         THEN [kind |-> "invalid", why |-> "index"]
    ELSE [kind |-> "sample", r |-> IntOfField[line[1]],
          c |-> IntOfField[line[2]], v |-> IntOfField[line[3]]]

ParseLine(line) ==
    IF IsHeader(line) THEN [kind |-> "skip"]
    ELSE IF Len(line) # 3 THEN [kind |-> "invalid", why |-> "fields"]
    ELSE IF ~(IsInt(line[1]) /\ IsInt(line[2]) /\ IsInt(line[3]))
         THEN [kind |-> "invalid", why |-> "value"]
    ELSE IF ~InGrid(IntOfField[line[1]], IntOfField[line[2]])
         THEN [kind |-> "invalid", why |-> "index"]
    ELSE [kind |-> "sample", r |-> IntOfField[line[1]],
          c |-> IntOfField[line[2]], v |-> IntOfField[line[3]]]

\* frame_buffer[node_key] = raw_value
DictSet(d, k, v) == [x \in (DOMAIN d) \cup {k} |-> IF x = k THEN v ELSE d[x]]

EmptyDict == [x \in {} |-> 0]

\* the block under the lock: publish the buffer when the scan wraps, then
\* store the sample
FrameUpdateAnyNodes(fb, cf, fc, key, raw, ts) ==
    IF key = <<0, 0>> /\ Cardinality(DOMAIN fb) > 0
    THEN [frame_buffer |-> DictSet(EmptyDict, key, raw),
          completed_frames |->
              DequeAppend(cf, [ts |-> ts, frame |-> fb], CompletedMaxlen),
          frames_completed |-> fc + 1]
    ELSE [frame_buffer |-> DictSet(fb, key, raw),
          completed_frames |-> cf,
          frames_completed |-> fc]

FrameUpdateNoClear(fb, cf, fc, key, raw, ts) ==
    IF key = <<0, 0>> /\ Cardinality(DOMAIN fb) >= TOTAL_NODES
    THEN [frame_buffer |-> DictSet(fb, key, raw),
          completed_frames |->
              DequeAppend(cf, [ts |-> ts, frame |-> fb], CompletedMaxlen),
          frames_completed |-> fc + 1]
    ELSE [frame_buffer |-> DictSet(fb, key, raw),
          completed_frames |-> cf,
          frames_completed |-> fc]

FrameUpdate(fb, cf, fc, key, raw, ts) ==
    IF key = <<0, 0>> /\ Cardinality(DOMAIN fb) >= TOTAL_NODES
    THEN [frame_buffer |-> DictSet(EmptyDict, key, raw),
          completed_frames |->
              DequeAppend(cf, [ts |-> ts, frame |-> fb], CompletedMaxlen),
          frames_completed |-> fc + 1]
    ELSE [frame_buffer |-> DictSet(fb, key, raw),
          completed_frames |-> cf,
          frames_completed |-> fc]

\* no frame published so far
NoFrame == [ts |-> 0, frame |-> EmptyDict]

\* the frame a block under the lock has published, if it has
Published(u, fb, fc, ts, last) ==
    IF u.frames_completed # fc THEN [ts |-> ts, frame |-> fb] ELSE last

\* queue.Queue.put: room unless 0 < maxsize <= qsize
QueueHasRoom(q) == ~(CsvQueueMaxsize > 0 /\ Len(q) >= CsvQueueMaxsize)

Sample == <<current_timestamp, reader_local.r_idx, reader_local.c_idx,
            reader_local.raw_value>>

\* the process lives until main() has returned and the non-daemon writer
\* thread has ended; the daemon reader thread dies with it
ProcessAlive == ~(main_pc = "done" /\ writer_pc = "done")

PipeInitWith(budget) ==
    /\ line_budget = budget
    /\ last_pub = NoFrame
    /\ frame_buffer = EmptyDict
    /\ completed_frames = <<>>
    /\ csv_queue = <<>>
    /\ csv_rows = <<>>
    /\ running = TRUE
    /\ writer_running = TRUE
    /\ samples_received = 0
    /\ frames_completed = 0
    /\ invalid_samples = 0
    /\ current_timestamp = 0
    /\ ser = "None"
    /\ ser_close_calls = 0
    /\ reader_pc = "open"
    /\ reader_local = [r_idx |-> 0, c_idx |-> 0, raw_value |-> 0,
                       lines_received |-> 0, malformed |-> FALSE]
    /\ writer_pc = "loop"
    /\ main_pc = "show"
    /\ sigints = 0
    /\ fed = <<>>
    /\ at_stop = [queued |-> FALSE, rows |-> <<>>]

PipeInit == PipeInitWith(MaxLines)

\* ---- reader_thread_func ----
\* serial.Serial(...) succeeds
ReaderOpen ==
    /\ ProcessAlive
    /\ reader_pc = "open"
    /\ ser' = "open"
    /\ reader_pc' = "loop"
    /\ UNCHANGED <<frame_buffer, completed_frames, csv_queue, csv_rows,
                   running, writer_running, samples_received,
                   frames_completed, invalid_samples, current_timestamp,
                   ser_close_calls, reader_local, writer_pc, main_pc,
                   sigints, fed, at_stop>>
    /\ UNCHANGED <<last_pub, line_budget>>
    /\ UNCHANGED offPipeVars

\* serial.Serial(...) raises: the thread returns
ReaderOpenFail ==
    /\ ProcessAlive
    /\ reader_pc = "open"
    /\ reader_pc' = "done"
    /\ UNCHANGED <<frame_buffer, completed_frames, csv_queue, csv_rows,
                   running, writer_running, samples_received,
                   frames_completed, invalid_samples, current_timestamp,
                   ser, ser_close_calls, reader_local, writer_pc, main_pc,
                   sigints, fed, at_stop>>
    /\ UNCHANGED <<last_pub, line_budget>>
    /\ UNCHANGED offPipeVars

\* while running: false
ReaderExit ==
    /\ ProcessAlive
    /\ reader_pc = "loop"
    /\ ~running
    /\ reader_pc' = "done"
    /\ UNCHANGED <<frame_buffer, completed_frames, csv_queue, csv_rows,
                   running, writer_running, samples_received,
                   frames_completed, invalid_samples, current_timestamp,
                   ser, ser_close_calls, reader_local, writer_pc, main_pc,
                   sigints, fed, at_stop>>
    /\ UNCHANGED <<last_pub, line_budget>>
    /\ UNCHANGED offPipeVars

\* ser.readline() raises serial.SerialException: the loop is left by
\* "break" and the thread returns; no flag is set, nobody is told
ReaderSerialError ==
    /\ ProcessAlive
    /\ reader_pc = "loop"
    /\ running
    /\ ser = "open"
    /\ reader_pc' = "failed"
    /\ UNCHANGED <<frame_buffer, completed_frames, csv_queue, csv_rows,
                   running, writer_running, samples_received,
                   frames_completed, invalid_samples, current_timestamp,
                   ser, ser_close_calls, reader_local, writer_pc, main_pc,
                   sigints, fed, at_stop>>
    /\ UNCHANGED <<last_pub, line_budget>>
    /\ UNCHANGED offPipeVars

\* one pass of the loop body up to the end of the first block under the
\* lock: read a line, parse it, and for a sample update the frame
ReaderLine(line) ==
    /\ ProcessAlive
    /\ reader_pc = "loop"
    /\ running
    /\ reader_local.lines_received < line_budget
    /\ LET p == ParseLine(line)
           n == reader_local.lines_received + 1
       IN CASE p.kind = "skip" ->
                 /\ reader_local' = [reader_local EXCEPT
                                        !.lines_received = n,
                                        !.malformed = FALSE]
                 /\ UNCHANGED <<frame_buffer, completed_frames,
                                frames_completed, invalid_samples,
                                current_timestamp, reader_pc, fed, last_pub>>
            [] p.kind = "invalid" ->
                 /\ reader_local' = [reader_local EXCEPT
                                        !.lines_received = n,
                                        !.malformed = (p.why # "index")]
                 /\ invalid_samples' = invalid_samples + 1
                 /\ UNCHANGED <<frame_buffer, completed_frames,
                                frames_completed, current_timestamp,
                                reader_pc, fed, last_pub>>
            [] p.kind = "sample" ->
                 LET u == FrameUpdate(frame_buffer, completed_frames,
                                      frames_completed, <<p.r, p.c>>, p.v, n)
                 IN /\ reader_local' = [r_idx |-> p.r, c_idx |-> p.c,
                                        raw_value |-> p.v,
                                        lines_received |-> n,
                                        malformed |-> FALSE]
                    /\ current_timestamp' = n
                    /\ frame_buffer' = u.frame_buffer
                    /\ completed_frames' = u.completed_frames
                    /\ frames_completed' = u.frames_completed
                    /\ last_pub' = Published(u, frame_buffer,
                                             frames_completed, n, last_pub)
                    /\ fed' = Append(fed, <<p.r, p.c, p.v>>)
                    /\ reader_pc' = "put1"
                    /\ UNCHANGED invalid_samples
    /\ UNCHANGED <<csv_queue, csv_rows, running, writer_running,
                   samples_received, ser, ser_close_calls, writer_pc,
                   main_pc, sigints, at_stop>>
    /\ UNCHANGED line_budget
    /\ UNCHANGED offPipeVars

ReaderRead == \E line \in Lines : ReaderLine(line)

\* csv_queue.put(sample, timeout=0.1) inside the try; queue.Full drops
\* the sample; then samples_received += 1
ReaderPut1 ==
    /\ ProcessAlive
    /\ reader_pc = "put1"
    /\ csv_queue' = IF QueueHasRoom(csv_queue)
                    THEN Append(csv_queue, Sample) ELSE csv_queue
    /\ samples_received' = samples_received + 1
    /\ reader_pc' = "lock2"
    /\ UNCHANGED <<frame_buffer, completed_frames, csv_rows, running,
                   writer_running, frames_completed, invalid_samples,
                   current_timestamp, ser, ser_close_calls, reader_local,
                   writer_pc, main_pc, sigints, fed, at_stop>>
    /\ UNCHANGED <<last_pub, line_budget>>
    /\ UNCHANGED offPipeVars

\* the second block under the lock, after the try statement
ReaderLock2 ==
    /\ ProcessAlive
    /\ reader_pc = "lock2"
    /\ LET u == FrameUpdate(frame_buffer, completed_frames, frames_completed,
                            <<reader_local.r_idx, reader_local.c_idx>>,
                            reader_local.raw_value,
                            reader_local.lines_received)
       IN /\ frame_buffer' = u.frame_buffer
          /\ completed_frames' = u.completed_frames
          /\ frames_completed' = u.frames_completed
          /\ last_pub' = Published(u, frame_buffer, frames_completed,
                                   reader_local.lines_received, last_pub)
    /\ current_timestamp' = reader_local.lines_received
    /\ reader_pc' = "put2"
    /\ UNCHANGED <<csv_queue, csv_rows, running, writer_running,
                   samples_received, invalid_samples, ser, ser_close_calls,
                   reader_local, writer_pc, main_pc, sigints, fed, at_stop>>
    /\ UNCHANGED line_budget
    /\ UNCHANGED offPipeVars

\* csv_queue.put(sample) after the try: blocks while the queue is full;
\* then samples_received += 1
ReaderPut2 ==
    /\ ProcessAlive
    /\ reader_pc = "put2"
    /\ QueueHasRoom(csv_queue)
    /\ csv_queue' = Append(csv_queue, Sample)
    /\ samples_received' = samples_received + 1
    /\ reader_pc' = "loop"
    /\ UNCHANGED <<frame_buffer, completed_frames, csv_rows, running,
                   writer_running, frames_completed, invalid_samples,
                   current_timestamp, ser, ser_close_calls, reader_local,
                   writer_pc, main_pc, sigints, fed, at_stop>>
    /\ UNCHANGED <<last_pub, line_budget>>
    /\ UNCHANGED offPipeVars

\* ---- csv_writer_thread_func ----
\* loop condition of the writer
WriterMayGo(wr, q) == wr

WriterGoesOn(wr, q) == wr \/ q # <<>>

\* csv_queue.get returns a sample: one row is written and flushed
WriterWrite ==
    /\ writer_pc = "loop"
    /\ WriterGoesOn(writer_running, csv_queue)
    /\ csv_queue # <<>>
    /\ csv_rows' = Append(csv_rows, <<Head(csv_queue)[2], Head(csv_queue)[3],
                                      Head(csv_queue)[4]>>)
    /\ csv_queue' = Tail(csv_queue)
    /\ UNCHANGED <<frame_buffer, completed_frames, running, writer_running,
                   samples_received, frames_completed, invalid_samples,
                   current_timestamp, ser, ser_close_calls, reader_pc,
                   reader_local, writer_pc, main_pc, sigints, fed, at_stop>>
    /\ UNCHANGED <<last_pub, line_budget>>
    /\ UNCHANGED offPipeVars

\* the loop condition is false: the files are closed, the thread ends
WriterExit ==
    /\ writer_pc = "loop"
    /\ ~WriterGoesOn(writer_running, csv_queue)
    /\ writer_pc' = "done"
    /\ UNCHANGED <<frame_buffer, completed_frames, csv_queue, csv_rows,
                   running, writer_running, samples_received,
                   frames_completed, invalid_samples, current_timestamp,
                   ser, ser_close_calls, reader_pc, reader_local, main_pc,
                   sigints, fed, at_stop>>
    /\ UNCHANGED <<last_pub, line_budget>>
    /\ UNCHANGED offPipeVars

\* ---- stop signal ----
\* what is written and queued when writer_running first becomes False
AtStop ==
    IF writer_running
    THEN [queued |-> csv_queue # <<>>,
          rows |-> csv_rows \o
                   [i \in 1 .. Len(csv_queue) |->
                      <<csv_queue[i][2], csv_queue[i][3], csv_queue[i][4]>>]]
    ELSE at_stop

\* ser.close() guarded by "if ser:"
SerClose(s) == IF s # "None" THEN "closed" ELSE s

SerCloseCalls(s, n) == IF s # "None" THEN n + 1 ELSE n

\* handle_exit, the SIGINT handler
HandleExit ==
    /\ ProcessAlive
    /\ sigints < MaxSigints
    /\ sigints' = sigints + 1
    /\ running' = FALSE
    /\ writer_running' = FALSE
    /\ ser' = SerClose(ser)
    /\ ser_close_calls' = SerCloseCalls(ser, ser_close_calls)
    /\ at_stop' = AtStop
    /\ UNCHANGED <<frame_buffer, completed_frames, csv_queue, csv_rows,
                   samples_received, frames_completed, invalid_samples,
                   current_timestamp, reader_pc, reader_local, writer_pc,
                   main_pc, fed>>
    /\ UNCHANGED <<last_pub, line_budget>>
    /\ UNCHANGED offPipeVars

\* ---- main ----
\* plt.show() returns (window closed): running = False, writer_running = False
MainCleanup ==
    /\ main_pc = "show"
    /\ running' = FALSE
    /\ writer_running' = FALSE
    /\ at_stop' = AtStop
    /\ main_pc' = "join"
    /\ UNCHANGED <<frame_buffer, completed_frames, csv_queue, csv_rows,
                   samples_received, frames_completed, invalid_samples,
                   current_timestamp, ser, ser_close_calls, reader_pc,
                   reader_local, writer_pc, sigints, fed>>
    /\ UNCHANGED <<last_pub, line_budget>>
    /\ UNCHANGED offPipeVars

\* csv_writer_thread.join(timeout=5.0) returns when the writer has ended
\* or the timeout has passed; then: if ser: ser.close()
MainJoinClose ==
    /\ main_pc = "join"
    /\ ser' = SerClose(ser)
    /\ ser_close_calls' = SerCloseCalls(ser, ser_close_calls)
    /\ main_pc' = "done"
    /\ UNCHANGED <<frame_buffer, completed_frames, csv_queue, csv_rows,
                   running, writer_running, samples_received,
                   frames_completed, invalid_samples, current_timestamp,
                   reader_pc, reader_local, writer_pc, sigints, fed, at_stop>>
    /\ UNCHANGED <<last_pub, line_budget>>
    /\ UNCHANGED offPipeVars

\* ---- update_visualization, the animation callback (main thread) ----
\* frames averaged for the baseline (the script is configured for 5)
BASELINE_FRAMES == 3

\* raw_to_capacitance: 1e12 / ((2 pi raw SCALE_FACTOR)^2 INDUCTANCE) pF is
\* CapK / raw^2; CapK is scaled to the raw values of the model
CapK == 3969

RawToCap(raw) == IF raw <= 0 THEN 0 ELSE (CapK * FP) \div (raw * raw)

\* frame_to_grid: pF of the nodes the frame holds, 0.0 for the others
FrameToGrid(fd) ==
    [k \in GridKeys |-> IF k \in DOMAIN fd THEN RawToCap(fd[k]) ELSE 0]

\* completed_frames[-1]
OldestFrame(cf) == cf[1]

LatestFrame(cf) == cf[Len(cf)]

\* the block under the lock: the latest completed frame, else a copy of
\* the frame being built, else nothing
TakeFrame(cf, fb) ==
    IF cf # <<>> THEN [src |-> "completed", frame |-> LatestFrame(cf).frame]
    ELSE IF DOMAIN fb # {} THEN [src |-> "buffer", frame |-> fb]
    ELSE [src |-> "none", frame |-> EmptyDict]

RECURSIVE SeqSum(_)
SeqSum(q) == IF q = <<>> THEN 0 ELSE Head(q) + SeqSum(Tail(q))

\* np.mean over the frames, one node
Mean(q) == SeqSum(q) \div Len(q)

\* the values one node has in the grids of the history
NodeValues(hist, k) == [i \in 1 .. Len(hist) |-> hist[i][k]]

\* establish_baseline(frame_grid)
EstablishBaseline(grid, hist, n, c0, ready) ==
    LET h2 == Append(hist, grid)
    IN IF n + 1 >= BASELINE_FRAMES
       THEN [history |-> h2, collected |-> n + 1,
             c0 |-> [k \in GridKeys |-> Mean(NodeValues(h2, k))],
             ready |-> TRUE]
       ELSE [history |-> h2, collected |-> n + 1, c0 |-> c0, ready |-> ready]

\* compute_delta_c_normalized(frame_grid)
ComputeDeltaCUnguarded(grid, ready, c0tab) ==
    IF (~ready) \/ DOMAIN c0tab = {}
    THEN [k \in GridKeys |-> 0]
    ELSE [k \in GridKeys |->
            LET c0 == IF k \in DOMAIN c0tab THEN c0tab[k] ELSE grid[k]
            IN IF c0 > 0 THEN ((grid[k] - c0) * FP) \div c0
               ELSE (grid[k] - c0) * FP]

ComputeDeltaCNormalized(grid, ready, c0tab) ==
    IF (~ready) \/ DOMAIN c0tab = {}
    THEN [k \in GridKeys |-> 0]
    ELSE [k \in GridKeys |->
            LET c0 == IF k \in DOMAIN c0tab THEN c0tab[k] ELSE grid[k]
            IN IF c0 > 0 THEN ((grid[k] - c0) * FP) \div c0 ELSE 0]

\* "if not baseline_ready:" in update_visualization
CalibratingAlways(ready) == TRUE

Calibrating(ready) == ~ready

VisInit ==
    /\ baseline_c0 = EmptyDict
    /\ baseline_ready = FALSE
    /\ baseline_frames_collected = 0
    /\ baseline_values_history = <<>>
    /\ frame_data = [src |-> "none", frame |-> EmptyDict]
    /\ delta_grid = EmptyDict

\* one call of update_visualization by the animation timer, while
\* plt.show() runs
UpdateVisualization ==
    /\ main_pc = "show"
    /\ LET fd == TakeFrame(completed_frames, frame_buffer)
           grid == FrameToGrid(fd.frame)
           e == EstablishBaseline(grid, baseline_values_history,
                                  baseline_frames_collected, baseline_c0,
                                  baseline_ready)
       IN /\ frame_data' = fd
          /\ IF fd.src = "none"
             THEN UNCHANGED <<baseline_c0, baseline_ready,
                              baseline_frames_collected,
                              baseline_values_history, delta_grid>>
             ELSE IF Calibrating(baseline_ready)
             THEN /\ baseline_values_history' = e.history
                  /\ baseline_frames_collected' = e.collected
                  /\ baseline_c0' = e.c0
                  /\ baseline_ready' = e.ready
                  /\ UNCHANGED delta_grid
             ELSE /\ delta_grid' = ComputeDeltaCNormalized(grid, baseline_ready,
                                                          baseline_c0)
                  /\ UNCHANGED <<baseline_c0, baseline_ready,
                                 baseline_frames_collected,
                                 baseline_values_history>>
    /\ UNCHANGED <<pipeVars, cellVars, gridVars, scen_i, srVars>>

\* lines of the runs in which the callback is observed
MaxVisLines == 5

VisLines == { <<"0", "0", "7">>, <<"0", "0", "9">>, <<"0", "1", "7">> }

VisReaderRead == \E line \in VisLines : ReaderLine(line)

VisNext ==
    \/ ReaderOpen \/ VisReaderRead
    \/ ReaderPut1 \/ ReaderLock2 \/ ReaderPut2
    \/ UpdateVisualization

PipeNext ==
    \/ ReaderOpen \/ ReaderOpenFail \/ ReaderExit \/ ReaderRead
    \/ ReaderSerialError
    \/ ReaderPut1 \/ ReaderLock2 \/ ReaderPut2
    \/ WriterWrite \/ WriterExit
    \/ HandleExit
    \/ MainCleanup \/ MainJoinClose

\* ------------------------------------------------------------------------
\* GridManager (NOVA_pipeline/grid_manager.py, and the copy of it in
\* realtime_8by8/test/grid_manager4x4.py)
\* ------------------------------------------------------------------------
\* calls made on one GridManager
MaxGridCalls == 4

\* GridManager(rows=ROWS, cols=COLS)
ROWS == 1
COLS == 2

DeclaredKeys == (0 .. ROWS - 1) \X (0 .. COLS - 1)

\* keys and readings of the calls: the declared grid and one key outside
GridCallKeys == DeclaredKeys \cup { <<1, 0>> }

GridVals == {4, 20}

\* CellPipeline(): the default arguments
DefaultConfig ==
    [alpha_baseline |-> <<1, 2000>>, press_dip |-> 50000,
     release_band |-> 20000, window |-> 5, delta_decay |-> <<1, 10>>]

\* **cell_kwargs of the constructor
GridKwargs ==
    { DefaultConfig,
      [alpha_baseline |-> <<1, 2>>, press_dip |-> 8, release_band |-> 3,
       window |-> 2, delta_decay |-> <<1, 2>>] }

\* a tracker as CellPipeline.__init__ leaves it
NewCell(c) ==
    [cfg |-> c, baseline |-> None, delta |-> 0, is_touched |-> FALSE,
     press_buf |-> <<>>]

\* CellPipeline.reset() on a tracker held in the grid
ResetKeepsBaseline(st) == [NewCell(st.cfg) EXCEPT !.baseline = st.baseline]

ResetResult(st) == NewCell(st.cfg)

\* _get_cell(row, col).  grid_manager.py creates the missing tracker in
\* self._cells; grid_manager4x4.py assigns to self.cells, an attribute
\* the object does not have, which raises AttributeError
GetCell(impl, cs, key) ==
    IF key \in DOMAIN cs THEN [raised |-> FALSE, cells |-> cs]
    ELSE IF impl = "grid_manager"
         THEN [raised |-> FALSE, cells |-> DictSet(cs, key, NewCell(DefaultConfig))]
    ELSE [raised |-> TRUE, cells |-> cs]

NoCall == [op |-> "init", key |-> <<0, 0>>, touched_before |-> FALSE]

\* state after GridManager.__init__
GridInitWith(impl) ==
    /\ grid_impl = impl
    /\ \E kw \in GridKwargs : cells = [k \in DeclaredKeys |-> NewCell(kw)]
    /\ grid_call = [op |-> "init", key |-> <<0, 0>>, val |-> 0,
                    ret |-> <<0, FALSE>>, raised |-> FALSE,
                    touched_before |-> FALSE, n |-> 0, prev |-> NoCall]

\* the object as the other specifications hold it: constructed, unused
GridIdle ==
    /\ grid_impl = "grid_manager"
    /\ cells = [k \in DeclaredKeys |-> NewCell(DefaultConfig)]
    /\ grid_call = [op |-> "init", key |-> <<0, 0>>, val |-> 0,
                    ret |-> <<0, FALSE>>, raised |-> FALSE,
                    touched_before |-> FALSE, n |-> 0, prev |-> NoCall]

PrevCall == [op |-> grid_call.op, key |-> grid_call.key,
             touched_before |-> grid_call.touched_before]

\* GridManager.feed(row, col, val)
GridFeedKey(key, val) ==
    /\ grid_call.n < MaxGridCalls
    /\ LET g == GetCell(grid_impl, cells, key)
       IN IF g.raised
          THEN /\ cells' = g.cells
               /\ grid_call' = [op |-> "feed", key |-> key, val |-> val,
                                ret |-> <<0, FALSE>>, raised |-> TRUE,
                                touched_before |-> FALSE,
                                n |-> grid_call.n + 1, prev |-> PrevCall]
          ELSE LET st == g.cells[key]
                   r == FeedResult(st, val, st.cfg)
               IN /\ cells' = [g.cells EXCEPT ![key] =
                                 [cfg |-> st.cfg, baseline |-> r.baseline,
                                  delta |-> r.delta,
                                  is_touched |-> r.is_touched,
                                  press_buf |-> r.press_buf]]
                  /\ grid_call' = [op |-> "feed", key |-> key, val |-> val,
                                   ret |-> r.ret, raised |-> FALSE,
                                   touched_before |-> st.is_touched,
                                   n |-> grid_call.n + 1, prev |-> PrevCall]
    /\ UNCHANGED grid_impl
    /\ UNCHANGED <<cellVars, pipeVars, visVars, scen_i, srVars>>

GridFeed == \E key \in GridCallKeys, val \in GridVals : GridFeedKey(key, val)

\* GridManager.reset_cell(row, col)
GridResetKey(key) ==
    /\ grid_call.n < MaxGridCalls
    /\ LET g == GetCell(grid_impl, cells, key)
       IN IF g.raised
          THEN /\ cells' = g.cells
               /\ grid_call' = [op |-> "reset_cell", key |-> key, val |-> 0,
                                ret |-> <<0, FALSE>>, raised |-> TRUE,
                                touched_before |-> FALSE,
                                n |-> grid_call.n + 1, prev |-> PrevCall]
          ELSE /\ cells' = [g.cells EXCEPT ![key] = ResetResult(g.cells[key])]
               /\ grid_call' = [op |-> "reset_cell", key |-> key, val |-> 0,
                                ret |-> <<0, FALSE>>, raised |-> FALSE,
                                touched_before |-> g.cells[key].is_touched,
                                n |-> grid_call.n + 1, prev |-> PrevCall]
    /\ UNCHANGED grid_impl
    /\ UNCHANGED <<cellVars, pipeVars, visVars, scen_i, srVars>>

GridResetCell == \E key \in GridCallKeys : GridResetKey(key)

GridNext == GridFeed \/ GridResetCell

\* ------------------------------------------------------------------------
\* One tracker fed a recorded sample sequence
\* ------------------------------------------------------------------------
ScenarioFeeds == <<1000, 1000, 1000, 1000, 900, 800, 810, 805, 800, 800>>

\* CellPipeline(press_dip=50, release_band=15, alpha_baseline=0.02)
ScenarioCfg ==
    [alpha_baseline |-> <<1, 50>>, press_dip |-> 50, release_band |-> 15,
     window |-> 5, delta_decay |-> <<1, 10>>]

\* that tracker, and trackers built with other arguments
ScenarioConfigs ==
    { [alpha_baseline |-> a, press_dip |-> p, release_band |-> b,
       window |-> w, delta_decay |-> <<1, 10>>] :
         a \in { <<1, 50>>, <<1, 2>> }, p \in {50, 150}, b \in {15, 250},
         w \in {1, 5} }

ScenIdle == scen_i = 0

ScenarioFeed ==
    /\ scen_i < Len(ScenarioFeeds)
    /\ Feed(ScenarioFeeds[scen_i + 1])
    /\ scen_i' = scen_i + 1

ScenarioNext == ScenarioFeed

\* ------------------------------------------------------------------------
\* The two-thread logger (serial_read.py; serial_read_diff.py is the same
\* program with three fields to a line instead of four)
\*
\* writer_thread_func, reader_thread_func and main(), in which the SIGINT
\* handler handle_exit also runs.  The timestamp of a sample is the
\* number of lines read so far.
\* ------------------------------------------------------------------------
SrLines ==
    { <<"0", "0", "7", "9">>, <<"0", "1", "9", "7">> }
    \cup { <<"0", "1", "7">>, <<"x", "0", "7", "9">> }      \* malformed

\* len(parts) != 4, or int() / float() raises ValueError: no sample
SrParse(line, ts) ==
    IF Len(line) # 4 THEN <<>>
    ELSE IF \E i \in 1 .. 4 : ~IsInt(line[i]) THEN <<>>
    ELSE <<ts, IntOfField[line[1]], IntOfField[line[2]],
           IntOfField[line[3]], IntOfField[line[4]]>>

SrInit ==
    /\ write_queue = <<>>
    /\ memory_buffer = <<>>
    /\ raw_out = <<>>
    /\ sr = [running |-> TRUE, writer_running |-> TRUE,
             reader_pc |-> "loop", writer_pc |-> "loop",
             main_pc |-> "join_rt", sample |-> <<>>, lines |-> 0,
             sigints |-> 0]

\* reader: one line is read and parsed
SrReaderLine(line) ==
    /\ sr.reader_pc = "loop"
    /\ sr.running
    /\ sr.lines < MaxLines
    /\ LET sample == SrParse(line, sr.lines + 1)
       IN sr' = [sr EXCEPT !.lines = sr.lines + 1,
                           !.sample = sample,
                           !.reader_pc = IF sample = <<>> THEN "loop"
                                         ELSE "put"]
    /\ UNCHANGED <<write_queue, memory_buffer, raw_out>>
    /\ UNCHANGED <<cellVars, pipeVars, visVars, gridVars, scen_i>>

SrReaderRead == \E line \in SrLines : SrReaderLine(line)

\* write_queue.put(sample)
SrReaderPut ==
    /\ sr.reader_pc = "put"
    /\ write_queue' = Append(write_queue, sr.sample)
    /\ sr' = [sr EXCEPT !.reader_pc = "append"]
    /\ UNCHANGED <<memory_buffer, raw_out>>
    /\ UNCHANGED <<cellVars, pipeVars, visVars, gridVars, scen_i>>

\* memory_buffer.append(sample)
SrReaderAppend ==
    /\ sr.reader_pc = "append"
    /\ memory_buffer' = Append(memory_buffer, sr.sample)
    /\ sr' = [sr EXCEPT !.reader_pc = "loop"]
    /\ UNCHANGED <<write_queue, raw_out>>
    /\ UNCHANGED <<cellVars, pipeVars, visVars, gridVars, scen_i>>

\* while running: false
SrReaderExit ==
    /\ sr.reader_pc = "loop"
    /\ ~sr.running
    /\ sr' = [sr EXCEPT !.reader_pc = "done"]
    /\ UNCHANGED <<write_queue, memory_buffer, raw_out>>
    /\ UNCHANGED <<cellVars, pipeVars, visVars, gridVars, scen_i>>

\* while writer_running or not write_queue.empty()
SrWriterGoesOn(wr, q) == wr \/ q # <<>>

\* write_queue.get returns a sample: the row is written and flushed
SrWriterWrite ==
    /\ sr.writer_pc = "loop"
    /\ SrWriterGoesOn(sr.writer_running, write_queue)
    /\ write_queue # <<>>
    /\ raw_out' = Append(raw_out, Head(write_queue))
    /\ write_queue' = Tail(write_queue)
    /\ UNCHANGED <<memory_buffer, sr>>
    /\ UNCHANGED <<cellVars, pipeVars, visVars, gridVars, scen_i>>

\* the loop condition is false: the file is closed, the thread ends
SrWriterExit ==
    /\ sr.writer_pc = "loop"
    /\ ~SrWriterGoesOn(sr.writer_running, write_queue)
    /\ sr' = [sr EXCEPT !.writer_pc = "done"]
    /\ UNCHANGED <<write_queue, memory_buffer, raw_out>>
    /\ UNCHANGED <<cellVars, pipeVars, visVars, gridVars, scen_i>>

\* handle_exit, the SIGINT handler
SrHandleExit ==
    /\ sr.main_pc # "done"
    /\ sr.sigints < MaxSigints
    /\ sr' = [sr EXCEPT !.running = FALSE, !.writer_running = FALSE,
                        !.sigints = sr.sigints + 1]
    /\ UNCHANGED <<write_queue, memory_buffer, raw_out>>
    /\ UNCHANGED <<cellVars, pipeVars, visVars, gridVars, scen_i>>

\* main: rt.join() returns; writer_running = False
SrMainJoinReader ==
    /\ sr.main_pc = "join_rt"
    /\ sr.reader_pc = "done"
    /\ sr' = [sr EXCEPT !.writer_running = FALSE, !.main_pc = "join_wt"]
    /\ UNCHANGED <<write_queue, memory_buffer, raw_out>>
    /\ UNCHANGED <<cellVars, pipeVars, visVars, gridVars, scen_i>>

\* main: wt.join() returns
SrMainJoinWriter ==
    /\ sr.main_pc = "join_wt"
    /\ sr.writer_pc = "done"
    /\ sr' = [sr EXCEPT !.main_pc = "done"]
    /\ UNCHANGED <<write_queue, memory_buffer, raw_out>>
    /\ UNCHANGED <<cellVars, pipeVars, visVars, gridVars, scen_i>>

SrNext ==
    \/ SrReaderRead \/ SrReaderPut \/ SrReaderAppend \/ SrReaderExit
    \/ SrWriterWrite \/ SrWriterExit
    \/ SrHandleExit
    \/ SrMainJoinReader \/ SrMainJoinWriter

\* ------------------------------------------------------------------------
\* Specifications
\* ------------------------------------------------------------------------
CellNext == CellFeed \/ CellReset

CellSpecInit == CellInit /\ PipeInit /\ VisInit /\ GridIdle /\ ScenIdle /\ SrInit

CellSpec == CellSpecInit /\ [][CellNext]_vars

PipeSpecInit == CellIdle /\ PipeInit /\ VisInit /\ GridIdle /\ ScenIdle /\ SrInit

PipeSpec == PipeSpecInit /\ [][PipeNext]_vars

\* the reader thread and the animation callback
VisSpecInit ==
    CellIdle /\ PipeInitWith(MaxVisLines) /\ VisInit /\ GridIdle /\ ScenIdle /\ SrInit

VisSpec == VisSpecInit /\ [][VisNext]_vars

GridSpecInit ==
    CellIdle /\ PipeInit /\ VisInit /\ GridInitWith("grid_manager") /\ ScenIdle /\ SrInit

GridSpec == GridSpecInit /\ [][GridNext]_vars

Grid4x4SpecInit ==
    CellIdle /\ PipeInit /\ VisInit /\ GridInitWith("grid_manager4x4")
        /\ ScenIdle /\ SrInit

Grid4x4Spec == Grid4x4SpecInit /\ [][GridNext]_vars

ScenarioSpecInit ==
    /\ \E c \in ScenarioConfigs : CellInitWith(c)
    /\ PipeInit /\ VisInit /\ GridIdle /\ ScenIdle /\ SrInit

ScenarioSpec == ScenarioSpecInit /\ [][ScenarioNext]_vars

SerialReadSpecInit ==
    CellIdle /\ PipeInit /\ VisInit /\ GridIdle /\ ScenIdle /\ SrInit

SerialReadSpec == SerialReadSpecInit /\ [][SrNext]_vars

\* The threads are scheduled: a thread that can take its next step takes
\* it.  Nothing is assumed of the serial input, the operator or SIGINT.
PipeFairness ==
    /\ WF_vars(WriterWrite)
    /\ WF_vars(WriterExit)
    /\ WF_vars(ReaderPut1 \/ ReaderLock2 \/ ReaderPut2 \/ ReaderExit)

FairPipeSpec == PipeSpec /\ PipeFairness

\* ------------------------------------------------------------------------
\* Properties of CellPipeline
\* ------------------------------------------------------------------------
LastBuf == press_buf[Len(press_buf)]

\* C1: a feed that returns is_touched = True leaves the baseline as it
\* found it, whatever value was fed.
C1_BaselineFrozenWhileTouched ==
    [][(call'.op = "feed" /\ ret'[2]) => baseline' = baseline]_vars

\* a feed has returned is_touched = True for a value off the baseline
C1_Witness ==
    /\ call.op = "feed"
    /\ ret[2]
    /\ baseline # ToFloat(call.val)

\* C2: an Untouched tracker with release_band < press_dip whose previous
\* sample and baseline both equal b returns is_touched = True from
\* feed(b - d) when d > press_dip.
C2_OnsetOnDip ==
    [][(/\ ~is_touched
        /\ cfg.release_band < cfg.press_dip
        /\ press_buf # <<>>
        /\ baseline = ToFloat(LastBuf)
        /\ call'.op = "feed"
        /\ LastBuf - call'.val > cfg.press_dip)
       => ret'[2]]_vars

\* C3: a Touched tracker is released by a sample with
\* |baseline - val| < release_band and by no other sample.
C3_ReleaseInsideBandOnly ==
    [][(is_touched /\ call'.op = "feed")
       => (ret'[2] <=>
             ~(Abs(baseline - ToFloat(call'.val)) < cfg.release_band * FP))]_vars

\* a feed found the tracker Touched and released it
C3_Witness ==
    /\ call.op = "feed"
    /\ call.touched_before
    /\ ~ret[2]
    /\ Abs(baseline - ToFloat(call.val)) < cfg.release_band * FP

\* ------------------------------------------------------------------------
\* Properties of the threaded pipeline
\* ------------------------------------------------------------------------
IsPrefix(a, b) == Len(a) <= Len(b) /\ \A i \in 1 .. Len(a) : a[i] = b[i]

\* the reader is between two lines: every sample parsed so far has gone
\* through the whole loop body
ReaderIdle == reader_pc \in {"loop", "done", "failed"}

QueuedRows ==
    [i \in 1 .. Len(csv_queue) |->
        <<csv_queue[i][2], csv_queue[i][3], csv_queue[i][4]>>]

\* C4: every valid parsed sample is enqueued for persistence exactly once,
\* so the rows written and queued are the samples parsed, one row each.
C4_EnqueuedExactlyOnce ==
    /\ Len(csv_rows) + Len(csv_queue) <= Len(fed)
    /\ ReaderIdle => csv_rows \o QueuedRows = fed

\* C5: every valid parsed sample is counted into samples_received exactly
\* once: never twice, and never skipped once the loop body has run.
C5_AppliedExactlyOnce ==
    /\ samples_received <= Len(fed)
    /\ ReaderIdle => samples_received = Len(fed)

\* C6: the queue between reader and writer has a finite capacity which
\* it never exceeds: after three pushes with a writer that has written
\* nothing, the queue is within that capacity.
C6_QueueBounded ==
    (samples_received >= 3 /\ csv_rows = <<>>)
        => (CsvQueueMaxsize > 0 /\ Len(csv_queue) <= CsvQueueMaxsize)

\* C7: after the stop signal the writer writes every sample that was in
\* the queue at that moment, writes at most the two rows the reader may
\* still add for the line it is processing, and terminates.
C7_DrainThenExit ==
    /\ [](writer_pc = "done" => IsPrefix(at_stop.rows, csv_rows))
    /\ []((~writer_running)
            => Len(csv_rows) + Len(csv_queue) <= Len(at_stop.rows) + 2)
    /\ ((~writer_running) ~> (writer_pc = "done"))

\* the writer has ended after writing samples that were queued at the stop
C7_Witness ==
    /\ writer_pc = "done"
    /\ at_stop.queued
    /\ IsPrefix(at_stop.rows, csv_rows)

\* C8: on shutdown the serial handle is closed exactly once: close() is
\* never called a second time, and a handle that was opened has been
\* closed when the process ends.
C8_ClosedExactlyOnce ==
    /\ ser_close_calls <= 1
    /\ (~ProcessAlive /\ ser # "None") => ser_close_calls = 1

\* keys of the samples parsed so far, and the raster scan of the grid
FedKeys == [i \in 1 .. Len(fed) |-> <<fed[i][1], fed[i][2]>>]

Raster == [i \in 1 .. TOTAL_NODES |->
              <<(i - 1) \div NUM_COLS, (i - 1) % NUM_COLS>>]

\* frame holding the first TOTAL_NODES samples parsed
FirstScan == [k \in GridKeys |->
                 fed[k[1] * NUM_COLS + k[2] + 1][3]]

\* C9 as stated: once exactly one sample per node has been fed in raster
\* order, exactly one frame with all R*C entries has been published.
C9_FrameAfterLastNode ==
    (FedKeys = Raster /\ ReaderIdle)
        => (Len(completed_frames) = 1
            /\ DOMAIN completed_frames[1].frame = GridKeys)

\* C9 amended: after one sample per node in raster order no frame has been
\* published and the buffer holds the scan; the next (0,0) sample
\* publishes that scan, as exactly one frame with all R*C entries.
C9_FrameOnWraparound ==
    /\ FedKeys = Raster
         => (completed_frames = <<>>
             /\ (ReaderIdle => frame_buffer = FirstScan))
    /\ FedKeys = Raster \o << <<0, 0>> >>
         => (Len(completed_frames) = 1
             /\ completed_frames[1].frame = FirstScan)

\* a full raster scan and the next (0,0) sample have gone through the loop
C9_Witness ==
    /\ FedKeys = Raster \o << <<0, 0>> >>
    /\ ReaderIdle
    /\ Len(completed_frames) = 1

\* C10: every frame in completed_frames has exactly the keys of the grid.
C10_FramesCoverGrid ==
    \A i \in 1 .. Len(completed_frames) :
        DOMAIN completed_frames[i].frame = GridKeys

\* a frame has been published
C10_Witness ==
    /\ completed_frames # <<>>
    /\ frames_completed = Len(completed_frames)

\* nodes of the grid that have sent no sample so far
SilentNodes == GridKeys \ { FedKeys[i] : i \in 1 .. Len(fed) }

\* C11: a scan that lacks a node does not hold the assembler back for
\* ever: once more samples than one scan holds have gone through the loop
\* while some node stayed silent, a (partial) frame has been published.
C11_PartialFramePublished ==
    (ReaderIdle /\ SilentNodes # {} /\ Len(fed) > TOTAL_NODES)
        => completed_frames # <<>>

\* ------------------------------------------------------------------------
\* Properties of the animation callback and the calibration
\* ------------------------------------------------------------------------
\* C12: once a frame has been published, every call of the callback takes
\* the frame published last, whatever the reader thread has done between
\* the calls.
C12_ReadsLatestPublished ==
    [][(UpdateVisualization /\ last_pub # NoFrame)
       => (frame_data'.src = "completed"
           /\ frame_data'.frame = last_pub.frame)]_vars

\* the callback has taken the second of two different published frames
C12_Witness ==
    /\ frame_data.src = "completed"
    /\ Len(completed_frames) >= 2
    /\ frame_data.frame = last_pub.frame
    /\ completed_frames[1].frame # frame_data.frame

\* np.median of the accumulated values (adaptive4read2.py)
Median(q) ==
    LET sorted == SortSeq(q, LAMBDA a, b : a < b)
        n == Len(q)
    IN IF n % 2 = 1 THEN sorted[(n + 1) \div 2]
       ELSE (sorted[n \div 2] + sorted[n \div 2 + 1]) \div 2

\* C13: when calibration completes, C0 of every node is the median of the
\* values accumulated for that node.
C13_BaselineIsMedian ==
    baseline_ready
        => \A k \in GridKeys :
              baseline_c0[k] = Median(NodeValues(baseline_values_history, k))

\* C14: baseline_ready never returns to False, and once it is True the
\* table baseline_c0 is not written again.
C14_CalibratesOnce ==
    [][baseline_ready => (baseline_ready' /\ baseline_c0' = baseline_c0)]_vars

\* after calibration the callback has rendered a frame that differs from
\* the last frame of the calibration
C14_Witness ==
    /\ baseline_ready
    /\ delta_grid # EmptyDict
    /\ FrameToGrid(frame_data.frame)
         # baseline_values_history[Len(baseline_values_history)]

\* the node had no sample in any frame of the calibration
SilentInCalibration(k) ==
    \A i \in 1 .. Len(baseline_values_history) :
        baseline_values_history[i][k] = 0

\* C15: a node without samples during the calibration gets as C0 a value
\* it reports afterwards (the first one): once the callback has rendered
\* a frame that holds the node, its C0 is the capacitance of a reading the
\* node has sent.
C15_SilentNodeGetsFirstValue ==
    \A k \in GridKeys :
        (/\ baseline_ready
         /\ delta_grid # EmptyDict
         /\ k \in DOMAIN frame_data.frame
         /\ SilentInCalibration(k))
        => \E i \in 1 .. Len(fed) :
              /\ <<fed[i][1], fed[i][2]>> = k
              /\ baseline_c0[k] = RawToCap(fed[i][3])

\* ------------------------------------------------------------------------
\* Properties of GridManager
\* ------------------------------------------------------------------------
\* C16: feed and reset_cell do not raise for a key outside the declared
\* grid: the call returns and the key has a tracker afterwards.
C16_OutOfGridNeverRaises ==
    (grid_call.op \in {"feed", "reset_cell"} /\ grid_call.key \notin DeclaredKeys)
        => (~grid_call.raised /\ grid_call.key \in DOMAIN cells)

OthersUnchanged(k) == \A j \in (DOMAIN cells) \ {k} : cells'[j] = cells[j]

\* C17: reset_cell(row, col) leaves that tracker as the constructor did
\* (baseline None, delta 0.0, untouched, empty buffer) and every other
\* tracker as it was; the feed(v) that follows on that key returns
\* (0.0, False) and sets the baseline to v, again changing no other tracker.
C17_ResetOneTracker ==
    [][/\ (grid_call'.n # grid_call.n /\ grid_call'.op = "reset_cell")
          => (/\ ~grid_call'.raised
              /\ cells'[grid_call'.key].baseline = None
              /\ cells'[grid_call'.key].delta = 0
              /\ ~cells'[grid_call'.key].is_touched
              /\ cells'[grid_call'.key].press_buf = <<>>
              /\ OthersUnchanged(grid_call'.key))
       /\ (/\ grid_call'.n # grid_call.n
           /\ grid_call'.op = "feed"
           /\ grid_call.op = "reset_cell"
           /\ grid_call'.key = grid_call.key)
          => (/\ grid_call'.ret = <<0, FALSE>>
              /\ cells'[grid_call'.key].baseline = ToFloat(grid_call'.val)
              /\ OthersUnchanged(grid_call'.key))]_vars

\* a touched tracker was reset and then fed
C17_Witness ==
    /\ grid_call.op = "feed"
    /\ grid_call.prev.op = "reset_cell"
    /\ grid_call.prev.key = grid_call.key
    /\ grid_call.prev.touched_before
    /\ grid_call.ret = <<0, FALSE>>
    /\ cells[grid_call.key].baseline = ToFloat(grid_call.val)

\* ------------------------------------------------------------------------
\* More properties of CellPipeline
\* ------------------------------------------------------------------------
\* C18: the tracker built with press_dip=50, release_band=15,
\* alpha_baseline=0.02 returns is_touched = False for samples 1 to 4 of
\* the recorded sequence and True for samples 5 to 10.
C18_ScenarioTouch ==
    (cfg = ScenarioCfg /\ scen_i >= 1) => (ret[2] <=> scen_i >= 5)

\* the whole sequence has been fed to that tracker
C18_Witness ==
    /\ cfg = ScenarioCfg
    /\ scen_i = Len(ScenarioFeeds)
    /\ ret[2]

\* C19: a new tracker with press_dip >= 0 that is fed one same value in
\* every call returns delta = 0.0 and is_touched = False from every call.
C19_ConstantInputStaysIdle ==
    (call.op = "feed" /\ call.steady /\ cfg.press_dip >= 0)
        => ret = <<0, FALSE>>

\* a tracker with press_dip = 0 has been fed the same value at least twice
C19_Witness ==
    /\ call.op = "feed"
    /\ call.steady
    /\ cfg.press_dip = 0
    /\ Len(press_buf) >= 2
    /\ ret = <<0, FALSE>>

\* C20: feed never returns a negative delta, and when it returns
\* is_touched = True the delta is max(0, baseline - val).
C20_DeltaClamped ==
    call.op = "feed"
        => (/\ ret[1] >= 0
            /\ ret[2] => ret[1] = (IF baseline - ToFloat(call.val) > 0
                                   THEN baseline - ToFloat(call.val) ELSE 0))

\* a touched tracker was fed a value above its baseline
C20_Witness ==
    /\ call.op = "feed"
    /\ ret[2]
    /\ baseline < ToFloat(call.val)
    /\ ret[1] = 0

\* ------------------------------------------------------------------------
\* More properties of the threaded pipeline
\* ------------------------------------------------------------------------
\* C21: after a failed serial read the process does not go on without a
\* reader: whatever reconnecting is tried is bounded, and then the whole
\* process (writer thread and main with its window) comes to an end.
C21_StopsAfterSerialFailure ==
    (reader_pc = "failed") ~> (~ProcessAlive)

\* C22: once the baseline is ready the grid rendered holds 0.0 for every
\* node whose C0 is <= 0 and (C_current - C0) / C0 for every other node.
C22_GuardedNormalization ==
    (baseline_ready /\ delta_grid # EmptyDict)
        => \A k \in GridKeys :
              LET c == FrameToGrid(frame_data.frame)[k]
                  c0 == baseline_c0[k]
              IN delta_grid[k] = IF c0 <= 0 THEN 0
                                 ELSE ((c - c0) * FP) \div c0

\* a frame was rendered in which one node has C0 = 0 and a reading, and
\* another node is off its positive C0
C22_Witness ==
    /\ baseline_ready
    /\ delta_grid # EmptyDict
    /\ \E k \in GridKeys :
          /\ baseline_c0[k] = 0
          /\ FrameToGrid(frame_data.frame)[k] > 0
          /\ delta_grid[k] = 0
    /\ \E k \in GridKeys : baseline_c0[k] > 0 /\ delta_grid[k] # 0

\* lines with the wrong number of fields or a field that is no number
MalformedLines ==
    { line \in Lines :
        /\ ~IsHeader(line)
        /\ (Len(line) # 3 \/ \E i \in 1 .. Len(line) : ~IsInt(line[i])) }

\* C23: a malformed line changes none of frame_buffer, completed_frames,
\* csv_queue and samples_received, stops nothing, and leaves the reader at
\* the top of its loop, ready for the next line.
C23_MalformedLineDiscarded ==
    [][\A line \in MalformedLines :
         ReaderLine(line)
           => (/\ UNCHANGED <<frame_buffer, completed_frames, csv_queue,
                              samples_received, running, writer_running>>
               /\ reader_pc' = "loop")]_vars

\* a malformed line was read after a sample had gone through the loop,
\* and the reader is back at the top of the loop
C23_Witness ==
    /\ reader_local.malformed
    /\ reader_pc = "loop"
    /\ invalid_samples >= 1
    /\ samples_received >= 1
    /\ frame_buffer # EmptyDict

\* C24: a (0,0) sample that finds a full scan in the buffer appends that
\* scan as one frame, without the sample itself, and leaves the buffer
\* holding only the sample; the rest of the loop body for that sample
\* publishes nothing more.
C24_PublishedExactlyOnce ==
    [][/\ (/\ reader_pc = "loop"
           /\ reader_pc' = "put1"
           /\ <<reader_local'.r_idx, reader_local'.c_idx>> = <<0, 0>>
           /\ Cardinality(DOMAIN frame_buffer) >= TOTAL_NODES)
          => (/\ completed_frames'
                   = Append(completed_frames,
                            [ts |-> reader_local'.lines_received,
                             frame |-> frame_buffer])
              /\ frames_completed' = frames_completed + 1
              /\ frame_buffer' = DictSet(EmptyDict, <<0, 0>>,
                                         reader_local'.raw_value))
       /\ (/\ reader_pc \in {"put1", "lock2", "put2"}
           /\ last_pub.ts = reader_local.lines_received)
          => (/\ completed_frames' = completed_frames
              /\ frames_completed' = frames_completed)]_vars

\* the loop body has finished for a (0,0) sample that published a scan
C24_Witness ==
    /\ reader_pc = "loop"
    /\ last_pub.ts = reader_local.lines_received
    /\ frames_completed = 1
    /\ DOMAIN last_pub.frame = GridKeys
    /\ frame_buffer = DictSet(EmptyDict, <<0, 0>>, reader_local.raw_value)

\* samples i .. j of the stream lie within one scan cycle: no (0,0)
\* sample after the first of them
OneScan(i, j) == \A m \in (i + 1) .. j : FedKeys[m] # <<0, 0>>

FromOneScan(f) ==
    \E i \in 1 .. Len(fed), j \in 1 .. Len(fed) :
        /\ i <= j
        /\ OneScan(i, j)
        /\ \A k \in DOMAIN f :
              \E m \in i .. j : fed[m] = <<k[1], k[2], f[k]>>

\* C26: the values of a published frame were all received within one
\* scan cycle.
C26_FrameFromOneScan ==
    \A n \in 1 .. Len(completed_frames) :
        FromOneScan(completed_frames[n].frame)

\* C25: with 0 < delta_decay <= 1, a feed that finds the tracker
\* Untouched and leaves it Untouched makes a non-zero delta strictly
\* smaller, by the factor 1 - delta_decay at least, and never leaves it
\* between 0 and 1: so delta is exactly 0.0 after finitely many such feeds;
\* and a delta of 0.0 stays 0.0.
C25_DeltaDecaysToZero ==
    [][(/\ call'.op = "feed"
        /\ baseline # None
        /\ ~is_touched
        /\ ~ret'[2]
        /\ 0 < cfg.delta_decay[1]
        /\ cfg.delta_decay[1] <= cfg.delta_decay[2])
       => (/\ delta # 0 => delta' < delta
           /\ delta' * cfg.delta_decay[2]
                <= (cfg.delta_decay[2] - cfg.delta_decay[1]) * delta
           /\ delta' = 0 \/ delta' >= FP
           /\ delta = 0 => delta' = 0)]_vars

\* an Untouched tracker whose delta had decayed, but not to zero, was fed
\* and stayed Untouched with delta snapped to 0.0
C25_Witness ==
    /\ call.op = "feed"
    /\ ~call.touched_before
    /\ ~is_touched
    /\ cfg.delta_decay = <<1, 2>>
    /\ call.delta_before > 0
    /\ delta = 0

\* C30: whatever window >= 1 is configured, an Untouched tracker whose
\* sample drops by more than press_dip below the sample fed just before,
\* and ends at least release_band away from the baseline, is Touched
\* after that feed.
C30_OnsetForEveryWindow ==
    [][(/\ cfg.window >= 1
        /\ call.op = "feed"
        /\ call'.op = "feed"
        /\ baseline # None
        /\ ~is_touched
        /\ call.val - call'.val > cfg.press_dip
        /\ Abs(baseline - ToFloat(call'.val)) >= cfg.release_band * FP)
       => ret'[2]]_vars

\* ------------------------------------------------------------------------
\* More properties of the calibration and of GridManager
\* ------------------------------------------------------------------------
\* C27: the grids of the calibration are BASELINE_FRAMES different
\* completed frames: each of them covers every node, and at least that
\* many frames have been published.
C27_BaselineFromDistinctFrames ==
    baseline_ready
        => (/\ \A i \in 1 .. Len(baseline_values_history) :
                 \A k \in GridKeys : baseline_values_history[i][k] > 0
            /\ frames_completed >= BASELINE_FRAMES)

\* C29: every tracker of the grid, the lazily created ones included, has
\* the configuration the constructor gave to the trackers of the declared
\* grid.
C29_OneConfiguration ==
    \A k \in DOMAIN cells, d \in DeclaredKeys : cells[k].cfg = cells[d].cfg

\* ------------------------------------------------------------------------
\* Properties of the two-thread logger
\* ------------------------------------------------------------------------
\* C28: when the reader thread and the writer thread have both ended,
\* the queue is empty and RAW_OUT holds the samples of memory_buffer, in
\* the same order.
C28_RawOutIsMemoryBuffer ==
    (sr.reader_pc = "done" /\ sr.writer_pc = "done")
        => (write_queue = <<>> /\ raw_out = memory_buffer)

====
